---- MODULE Spec2Model ----
(***************************************************************************)
(* src/scrobbler/scrobbler.py: the polling loop (run) with the helpers it  *)
(* calls - the schedule test, get_sleep_duration, update_np,               *)
(* request_scrobble and handle_lastfm_http_error - the entry point of the  *)
(* script with setup mode, and generate_signature.  Spinitron (the source  *)
(* API) and Last.fm (the target API) are the environment: every response   *)
(* they can give is drawn from a small set.  Time is in whole seconds      *)
(* since 00:00:00 UTC of the day the process starts.                       *)
(***************************************************************************)
EXTENDS Integers, Sequences, FiniteSets

(* ------------------------------ bounds -------------------------------- *)

\* Fetches of /spins?count=1 a behaviour performs (iterations of the loop).
MaxFetches == 3

\* The spin ids the source API serves.
Ids == {1, 2}

\* The time, in seconds, a POST to Last.fm can take to return.
NetDelays == {0, 1}

\* last_spin_id = None (line 333); spin ids are positive.
NoId == 0

(* --------------------------- calendar --------------------------------- *)

SecondsPerHour == 3600

HoursPerDay == 24

SecondsPerDay == HoursPerDay * SecondsPerHour

\* datetime.hour of an instant
Hour(t) == (t \div SecondsPerHour) % HoursPerDay

(* ----------------------- inputs of the model -------------------------- *)

\* hh:mm:ss as an instant of the first day.
At(h, m, s) == h * SecondsPerHour + m * 60 + s

\* The runs checked: schedule.json (start_hour, end_hour) and the instant
\* run() is entered.  A day window entered just before it opens, just after
\* it opened, just before it closes and after it closed; a window that wraps
\* past midnight entered just before it opens and just before it closes; an
\* empty window (start_hour = end_hour) entered before and after that hour.
Runs ==
    {[start_hour |-> 12, end_hour |-> 20, at |-> At(11, 59, 50)],
     [start_hour |-> 12, end_hour |-> 20, at |-> At(12, 0, 15)],
     [start_hour |-> 12, end_hour |-> 20, at |-> At(19, 59, 50)],
     [start_hour |-> 12, end_hour |-> 20, at |-> At(21, 0, 5)],
     [start_hour |-> 22, end_hour |-> 4, at |-> At(21, 59, 50)],
     [start_hour |-> 22, end_hour |-> 4, at |-> At(3, 59, 50)],
     [start_hour |-> 6, end_hour |-> 6, at |-> At(5, 59, 50)],
     [start_hour |-> 6, end_hour |-> 6, at |-> At(6, 0, 5)]}

\* A spin the DJ logs at instant t: one that has just ended or one with 20 s
\* left, of 30 s or of 31 s, which started its length before its end.
NewSpins(t) ==
    {[start |-> t + e - d, end |-> t + e, duration |-> d] :
        e \in {-1, 20}, d \in {30, 31}}

\* The end a DJ's correction gives a spin served at instant t.
EditedEnds(t) == {t + 20}

\* "category" of a playlist: a show, the automation filler, or empty/null.
Categories == {"Music", "Automation", ""}

\* Bodies of GET /spins?count=1.
SpinBodies == {"one_item", "no_items_key", "empty_items"}

\* Responses of GET /playlists/{id}: the status and the keys of the body.
PlaylistResponses ==
    {[status |-> 200, keys |-> {"title", "category", "persona_id"}],
     [status |-> 404, keys |-> {}],
     [status |-> 200, keys |-> {"category", "persona_id"}],
     [status |-> 200, keys |-> {"title", "persona_id"}],
     [status |-> 200, keys |-> {"title", "category"}]}

\* Responses of GET /personas/{id}.
PersonaResponses ==
    {[status |-> 200, keys |-> {"name"}],
     [status |-> 500, keys |-> {"name"}],
     [status |-> 200, keys |-> {}]}

\* Responses of a POST to Last.fm: the HTTP status and the kind of body
\* (XML with an <error> element, XML without one, not XML).
LastfmResponses ==
    {[status |-> 200, body |-> "lfm_ok"],
     [status |-> 403, body |-> "lfm_error"],
     [status |-> 403, body |-> "xml_no_error"],
     [status |-> 403, body |-> "not_xml"]}

NoSpin == [start |-> 0, end |-> 0, duration |-> 0]

\* A value os.getenv returns (lines 70-73): None for a variable that is not
\* set, else its string, kept as the sequence of its code points.
None == [is_none |-> TRUE, text |-> <<>>]

String(t) == [is_none |-> FALSE, text |-> t]

\* The key values a .env file is given here: unset, "", "xx", "Xx", "kx".
KeyValues ==
    {None, String(<<>>), String(<<120, 120>>), String(<<88, 120>>),
     String(<<107, 120>>)}

\* A key issued by the service ("kx").
IssuedKey == String(<<107, 120>>)

\* The marker files of a finished setup: the one setup() writes (line 301)
\* and the one the entry point looks for (line 547).
MarkerPaths == {"/env/setup_done", "/scrobbler/setup_done"}

NoCurrentSpin == [id |-> NoId, start |-> 0, end |-> 0, duration |-> 0]

NoResponse == [status |-> 0, keys |-> {}]

NoSignature == [md5 |-> <<>>]

(* ------------------------------ state --------------------------------- *)

VARIABLES
    start_hour,                 \* schedule.json (line 80)
    end_hour,                   \* schedule.json (line 81)
    now,                        \* the wall clock, UTC
    pc,                         \* where run() stands
    miss_count,                 \* line 332
    last_spin_id,               \* line 333
    current_spin,               \* line 338
    playlist_response,          \* line 341
    current_playlist_category,  \* line 358
    persona_response,           \* line 360
    current_datetime,           \* line 387
    time_difference,            \* line 389
    spins,                      \* the source API's spins, by id
    fetches,                    \* spin fetches made so far
    branch,                     \* the branch this iteration took
    calls,                      \* the Last.fm calls of this iteration
    sleeps,                     \* the time.sleep calls of this iteration
    crash,                      \* the place an uncaught exception left run()
    prev_spin_id,               \* the id the previous fetch returned
    prev_calls,                 \* the kinds of the previous iteration's calls
    prev_branch,                \* the branch the previous iteration took
    last_at_fetch,              \* last_spin_id when this iteration fetched
    miss_at_fetch,              \* miss_count when this iteration fetched
    np_count,                   \* now-playing calls made, by spin id
    scrobble_count,             \* scrobble calls made, by spin id
    lastfm_api_key,             \* line 70
    lastfm_api_secret,          \* line 71
    lastfm_session_key,         \* line 72
    spinitron_api_key,          \* line 73
    args_setup,                 \* the --setup flag (line 529)
    files,                      \* the marker files that exist
    setup_outcome,              \* how setup() ended in this process, if run
    setup_done_before,          \* setup() completed in an earlier process
    starts,                     \* processes started so far
    sig_params,                 \* a params dict, as pairs in insertion order
    sig_other,                  \* the dict it is compared with
    sig_a,                      \* generate_signature(sig_params)
    sig_b,                      \* generate_signature(sig_other)
    tested_hour,                \* an hour put to the schedule test
    in_schedule                 \* what the schedule test said of it

config == <<start_hour, end_hour>>

locals ==
    <<current_spin, playlist_response, current_playlist_category,
      persona_response, current_datetime, time_difference>>

observed ==
    <<fetches, branch, prev_spin_id, prev_calls, prev_branch,
      last_at_fetch, miss_at_fetch>>

counts == <<np_count, scrobble_count>>

history == <<setup_done_before, starts>>

startup ==
    <<lastfm_api_key, lastfm_api_secret, lastfm_session_key,
      spinitron_api_key, args_setup, files, setup_outcome, history>>

probes == <<sig_params, sig_other, sig_a, sig_b, tested_hour, in_schedule>>

vars ==
    <<config, now, pc, miss_count, last_spin_id, locals, spins, observed,
      calls, sleeps, crash, counts, startup, probes>>

current_hour == Hour(current_datetime)

song_start_hour == Hour(current_spin.start)

spin_id == current_spin.id

spin_duration == current_spin.duration

\* The first process started on this installation; setup() has not run.
FirstStart ==
    /\ setup_outcome = "none"
    /\ setup_done_before = FALSE
    /\ starts = 1

\* The process as loaded, before the entry point or run() has acted.
Loaded ==
    /\ \E r \in Runs :
        /\ start_hour = r.start_hour
        /\ end_hour = r.end_hour
        /\ now = r.at
    /\ miss_count = 0
    /\ last_spin_id = NoId
    /\ current_spin = NoCurrentSpin
    /\ playlist_response = NoResponse
    /\ current_playlist_category = "unset"
    /\ persona_response = NoResponse
    /\ current_datetime = now
    /\ time_difference = 0
    /\ spins = [i \in Ids |-> NoSpin]
    /\ fetches = 0
    /\ branch = "none"
    /\ calls = <<>>
    /\ sleeps = <<>>
    /\ crash = "none"
    /\ prev_spin_id = NoId
    /\ prev_calls = <<>>
    /\ prev_branch = "none"
    /\ last_at_fetch = NoId
    /\ miss_at_fetch = 0
    /\ np_count = [i \in Ids |-> 0]
    /\ scrobble_count = [i \in Ids |-> 0]

\* No function has been put to a test on its own.
Unprobed ==
    /\ sig_params = <<>>
    /\ sig_other = <<>>
    /\ sig_a = NoSignature
    /\ sig_b = NoSignature
    /\ tested_hour = 0
    /\ in_schedule = FALSE

\* run() has just been entered: every key is set and the flag is off.
Init ==
    /\ Loaded
    /\ Unprobed
    /\ pc = "loop"
    /\ lastfm_api_key = IssuedKey
    /\ lastfm_api_secret = IssuedKey
    /\ lastfm_session_key = IssuedKey
    /\ spinitron_api_key = IssuedKey
    /\ args_setup = FALSE
    /\ files = {}
    /\ FirstStart

(* --------------------------- pure helpers ----------------------------- *)

\* The schedule test with the end hour included
InSchedule_EndInclusive(sh, eh, h) ==
    \/ (sh <= h /\ h <= eh)
    \/ (sh > eh /\ (h >= sh \/ h <= eh))

\* The schedule test without the window that wraps past midnight
InSchedule_NoWrap(sh, eh, h) == sh <= h /\ h < eh

\* The schedule test of lines 392-398 (current hour) and 409-415 (the
\* spin's start hour): the same expression, negated by the caller.
InSchedule(sh, eh, h) ==
    \/ (sh <= h /\ h < eh)
    \/ (sh > eh /\ (h >= sh \/ h < eh))

\* current_datetime.replace(hour=start_hour, minute=0, second=0, ...)
desired_time(sh, t) == (t \div SecondsPerDay) * SecondsPerDay + sh * SecondsPerHour

\* get_sleep_duration at instant t.  When the start hour has passed today
\* line 163 evaluates datetime.timedelta on the class datetime (line 24
\* imports the class, not the module), which raises AttributeError.
get_sleep_duration(sh, t) ==
    IF desired_time(sh, t) < t
    THEN [raised |-> TRUE, seconds |-> 0]
    ELSE [raised |-> FALSE, seconds |-> desired_time(sh, t) - t]

\* line 348
PlaylistFailed(resp) == resp.status # 200 \/ "title" \notin resp.keys

\* line 367
PersonaFailed(resp) == resp.status # 200 \/ "name" \notin resp.keys

\* line 424 without the comparison with last_spin_id
IsNewSong_NoIdCheck(td, id, last) == td > 0

\* line 424 without the test of the time left
IsNewSong_NoTimeCheck(td, id, last) == id # last

\* The test of line 424 with a memory of every id that was ever sent.
IsNewSong_NeverSent(td, id, last) ==
    td > 0 /\ id # last /\ np_count[id] = 0

\* line 424
IsNewSong(td, id, last) == td > 0 /\ id # last

\* lines 427-430 without the comparison with "Automation"
CategoryScrobbled_TruthyOnly(cat) == cat # ""

\* lines 427-430: the category is truthy and is not "Automation"
CategoryScrobbled(cat) == cat # "" /\ cat # "Automation"

\* line 468 with >= for >
LongEnough_AtLeast30(d) == d >= 30

\* line 468
LongEnough(d) == d > 30

\* line 473
ScrobbleTimestamp(spin) == spin.end

\* line 465 waking a second early
IdleSeconds_Early(td) == td - 1

\* line 465: the argument of the sleep that waits for the end of the song
IdleSeconds(td) == td

\* requests' Response.ok (lines 199, 237)
response_ok(resp) == resp.status < 400

\* handle_lastfm_http_error: ET.fromstring raises ParseError on a body that
\* is not XML, which line 264 catches; on XML without an <error> element
\* root.find returns None and data.get raises AttributeError, which
\* nothing catches.
handle_lastfm_http_error_raises(resp) == resp.body = "xml_no_error"

\* line 48: the error codes of the Last.fm API.
ERROR_CODES == {16, 2, 3, 4, 5, 6, 7, 8, 9, 10, 11, 13, 26, 29}

\* lines 452-462 and 477-487: what run() prints for the code update_np or
\* request_scrobble returned (response.status_code, lines 202 and 240): the
\* "ERROR: ..." line or the "... successfully" line.
Printed(code) == IF code \in ERROR_CODES THEN "error" ELSE "success"

(* ------------------------------ actions ------------------------------- *)

\* What every fetch records about the iteration that ends and the one that
\* begins.
BeginIteration ==
    /\ fetches' = fetches + 1
    /\ prev_spin_id' = current_spin.id
    /\ prev_calls' = [i \in 1..Len(calls) |-> calls[i].kind]
    /\ prev_branch' = branch
    /\ last_at_fetch' = last_spin_id
    /\ miss_at_fetch' = miss_count
    /\ calls' = <<>>
    /\ sleeps' = <<>>

\* An uncaught exception leaves run(): the process ends with a traceback.
Raise(site) ==
    /\ pc' = "crashed"
    /\ crash' = site

\* The top of the loop reached also while the wait of line 465 is going on.
AtLoopTop_OrIdle == pc \in {"loop", "idle"}

\* line 334: the top of the loop; every sleep and every call of the body
\* blocks, so the next fetch waits for the end of the iteration.
AtLoopTop == pc = "loop"

\* lines 338-340: the latest spin.  A spin not served before is logged by
\* the DJ now; one served before is served again as it is stored.
FetchSpin ==
    /\ AtLoopTop
    /\ fetches < MaxFetches
    /\ \E id \in Ids :
        \E rec \in (IF spins[id] = NoSpin THEN NewSpins(now) ELSE {spins[id]}) :
            /\ spins' = [spins EXCEPT ![id] = rec]
            /\ current_spin' = [id |-> id, start |-> rec.start, end |-> rec.end,
                                duration |-> rec.duration]
    /\ BeginIteration
    /\ branch' = "none"
    /\ pc' = "playlist"
    /\ playlist_response' = NoResponse
    /\ persona_response' = NoResponse
    /\ current_playlist_category' = "unset"
    /\ current_datetime' = now
    /\ time_difference' = 0
    /\ UNCHANGED <<config, startup, probes, now, miss_count, last_spin_id,
                   crash, counts>>

\* lines 338-340 when the source has changed the end of a spin it served
\* before (a DJ correcting the log).
FetchSpinEdited ==
    /\ AtLoopTop
    /\ fetches < MaxFetches
    /\ \E id \in Ids :
        /\ spins[id] # NoSpin
        /\ \E e \in EditedEnds(now) \ {spins[id].end} :
            /\ spins' = [spins EXCEPT ![id].end = e]
            /\ current_spin' = [id |-> id, start |-> spins[id].start,
                                end |-> e, duration |-> spins[id].duration]
    /\ BeginIteration
    /\ branch' = "none"
    /\ pc' = "playlist"
    /\ playlist_response' = NoResponse
    /\ persona_response' = NoResponse
    /\ current_playlist_category' = "unset"
    /\ current_datetime' = now
    /\ time_difference' = 0
    /\ UNCHANGED <<config, startup, probes, now, miss_count, last_spin_id,
                   crash, counts>>

\* line 340 on a body without "items" (KeyError) or with an empty list
\* (IndexError).
FetchSpinMalformed ==
    /\ AtLoopTop
    /\ fetches < MaxFetches
    /\ \E body \in SpinBodies \ {"one_item"} : Raise("spins_items")
    /\ BeginIteration
    /\ branch' = "spin_fetch_failed"
    /\ UNCHANGED <<config, startup, probes, now, miss_count, last_spin_id,
                   locals, spins, counts>>

\* lines 341-355: the playlist lookup failed; warn, sleep 10 s, continue.
PlaylistRetry ==
    /\ pc = "playlist"
    /\ \E resp \in PlaylistResponses :
        /\ PlaylistFailed(resp)
        /\ playlist_response' = resp
    /\ branch' = "playlist_failed"
    /\ sleeps' = Append(sleeps, 10)
    /\ now' = now + 10
    /\ pc' = "loop"
    /\ UNCHANGED <<config, startup, probes, miss_count, last_spin_id,
                   current_spin, current_playlist_category, persona_response,
                   current_datetime, time_difference, spins, fetches,
                   prev_spin_id, prev_calls, prev_branch, last_at_fetch,
                   miss_at_fetch, calls, crash, counts>>

\* lines 357-361 on a playlist that has "title" but lacks "category"
\* (line 358) or "persona_id" (line 361): KeyError.
PlaylistKeyError ==
    /\ pc = "playlist"
    /\ \E resp \in PlaylistResponses :
        /\ ~PlaylistFailed(resp)
        /\ {"category", "persona_id"} \ resp.keys # {}
        /\ playlist_response' = resp
        /\ IF "category" \in resp.keys
           THEN /\ \E cat \in Categories : current_playlist_category' = cat
                /\ Raise("playlist_persona_id")
           ELSE /\ UNCHANGED current_playlist_category
                /\ Raise("playlist_category")
    /\ branch' = "playlist_key_error"
    /\ UNCHANGED <<config, startup, probes, now, miss_count, last_spin_id,
                   current_spin, persona_response, current_datetime,
                   time_difference, spins, fetches, prev_spin_id, prev_calls,
                   prev_branch, last_at_fetch, miss_at_fetch, calls, sleeps,
                   counts>>

\* lines 341-358: the playlist lookup succeeded.
PlaylistOk ==
    /\ pc = "playlist"
    /\ \E resp \in PlaylistResponses :
        /\ ~PlaylistFailed(resp)
        /\ {"category", "persona_id"} \subseteq resp.keys
        /\ playlist_response' = resp
    /\ \E cat \in Categories : current_playlist_category' = cat
    /\ pc' = "persona"
    /\ UNCHANGED <<config, startup, probes, now, miss_count, last_spin_id,
                   current_spin, persona_response, current_datetime,
                   time_difference, spins, observed, calls, sleeps, crash,
                   counts>>

\* lines 360-374: the persona lookup failed; warn, sleep 10 s, continue.
PersonaRetry ==
    /\ pc = "persona"
    /\ \E resp \in PersonaResponses :
        /\ PersonaFailed(resp)
        /\ persona_response' = resp
    /\ branch' = "persona_failed"
    /\ sleeps' = Append(sleeps, 10)
    /\ now' = now + 10
    /\ pc' = "loop"
    /\ UNCHANGED <<config, startup, probes, miss_count, last_spin_id,
                   current_spin, playlist_response, current_playlist_category,
                   current_datetime, time_difference, spins, fetches,
                   prev_spin_id, prev_calls, prev_branch, last_at_fetch,
                   miss_at_fetch, calls, crash, counts>>

\* lines 360-389: the persona lookup succeeded; the clock is read and the
\* time to the end of the spin computed.
PersonaOk ==
    /\ pc = "persona"
    /\ \E resp \in PersonaResponses :
        /\ ~PersonaFailed(resp)
        /\ persona_response' = resp
    /\ current_datetime' = now
    /\ time_difference' = current_spin.end - now
    /\ pc' = "schedule"
    /\ UNCHANGED <<config, startup, probes, now, miss_count, last_spin_id,
                   current_spin, playlist_response, current_playlist_category,
                   spins, observed, calls, sleeps, crash, counts>>

\* lines 392-405: the current hour is outside the schedule; sleep until
\* start_hour.  get_sleep_duration reads the clock again (line 156).
OutsideSchedule ==
    /\ pc = "schedule"
    /\ ~InSchedule(start_hour, end_hour, current_hour)
    /\ branch' = "out_of_window"
    /\ LET r == get_sleep_duration(start_hour, now) IN
        IF r.raised
        THEN /\ Raise("get_sleep_duration")
             /\ UNCHANGED <<now, sleeps>>
        ELSE /\ sleeps' = Append(sleeps, r.seconds)
             /\ now' = now + r.seconds
             /\ pc' = "loop"
             /\ UNCHANGED crash
    /\ UNCHANGED <<config, startup, probes, miss_count, last_spin_id, locals,
                   spins, fetches, prev_spin_id, prev_calls, prev_branch,
                   last_at_fetch, miss_at_fetch, calls, counts>>

\* The branch of lines 406-421 with line 516 run at the end of it.
SpinBeganOutside_RemembersSpin ==
    /\ pc = "schedule"
    /\ InSchedule(start_hour, end_hour, current_hour)
    /\ ~InSchedule(start_hour, end_hour, song_start_hour)
    /\ branch' = "began_outside"
    /\ sleeps' = Append(sleeps, 15)
    /\ now' = now + 15
    /\ last_spin_id' = spin_id
    /\ pc' = "loop"
    /\ UNCHANGED <<config, startup, probes, miss_count, locals, spins,
                   fetches, prev_spin_id, prev_calls, prev_branch,
                   last_at_fetch, miss_at_fetch, calls, crash, counts>>

\* lines 406-421: the spin began at an hour outside the schedule.
SpinBeganOutside ==
    /\ pc = "schedule"
    /\ InSchedule(start_hour, end_hour, current_hour)
    /\ ~InSchedule(start_hour, end_hour, song_start_hour)
    /\ branch' = "began_outside"
    /\ sleeps' = Append(sleeps, 15)
    /\ now' = now + 15
    /\ pc' = "loop"
    /\ UNCHANGED <<config, startup, probes, miss_count, last_spin_id, locals,
                   spins, fetches, prev_spin_id, prev_calls, prev_branch,
                   last_at_fetch, miss_at_fetch, calls, crash, counts>>

\* The branch of lines 431-442 without the reset of line 442.
NewSong_KeepsMissCount ==
    /\ pc = "schedule"
    /\ InSchedule(start_hour, end_hour, current_hour)
    /\ InSchedule(start_hour, end_hour, song_start_hour)
    /\ IsNewSong(time_difference, spin_id, last_spin_id)
    /\ CategoryScrobbled(current_playlist_category)
    /\ branch' = "new_song"
    /\ pc' = "update_np"
    /\ UNCHANGED <<config, startup, probes, now, miss_count, last_spin_id,
                   locals, spins, fetches, prev_spin_id, prev_calls,
                   prev_branch, last_at_fetch, miss_at_fetch, calls, sleeps,
                   crash, counts>>

\* lines 422-442: a new song of a playlist that is scrobbled.
NewSong ==
    /\ pc = "schedule"
    /\ InSchedule(start_hour, end_hour, current_hour)
    /\ InSchedule(start_hour, end_hour, song_start_hour)
    /\ IsNewSong(time_difference, spin_id, last_spin_id)
    /\ CategoryScrobbled(current_playlist_category)
    /\ branch' = "new_song"
    /\ miss_count' = 0
    /\ pc' = "update_np"
    /\ UNCHANGED <<config, startup, probes, now, last_spin_id, locals, spins,
                   fetches, prev_spin_id, prev_calls, prev_branch,
                   last_at_fetch, miss_at_fetch, calls, sleeps, crash,
                   counts>>

\* The branch of lines 494-499 with line 516 left to the branches that
\* sent something.
CategorySkip_ForgetsSpin ==
    /\ pc = "schedule"
    /\ InSchedule(start_hour, end_hour, current_hour)
    /\ InSchedule(start_hour, end_hour, song_start_hour)
    /\ IsNewSong(time_difference, spin_id, last_spin_id)
    /\ ~CategoryScrobbled(current_playlist_category)
    /\ branch' = "category_skip"
    /\ pc' = "loop"
    /\ UNCHANGED <<config, startup, probes, now, miss_count, last_spin_id,
                   locals, spins, fetches, prev_spin_id, prev_calls,
                   prev_branch, last_at_fetch, miss_at_fetch, calls, sleeps,
                   crash, counts>>

\* lines 424-430, 494-499, 516: a new song of an automation playlist or of
\* one without a category; nothing is sent and nothing is slept.
CategorySkip ==
    /\ pc = "schedule"
    /\ InSchedule(start_hour, end_hour, current_hour)
    /\ InSchedule(start_hour, end_hour, song_start_hour)
    /\ IsNewSong(time_difference, spin_id, last_spin_id)
    /\ ~CategoryScrobbled(current_playlist_category)
    /\ branch' = "category_skip"
    /\ last_spin_id' = spin_id
    /\ pc' = "loop"
    /\ UNCHANGED <<config, startup, probes, now, miss_count, locals, spins,
                   fetches, prev_spin_id, prev_calls, prev_branch,
                   last_at_fetch, miss_at_fetch, calls, sleeps, crash,
                   counts>>

\* lines 501-516: the spin is the one of the last request, or has ended.
Miss ==
    /\ pc = "schedule"
    /\ InSchedule(start_hour, end_hour, current_hour)
    /\ InSchedule(start_hour, end_hour, song_start_hour)
    /\ ~IsNewSong(time_difference, spin_id, last_spin_id)
    /\ branch' = "miss"
    /\ miss_count' = miss_count + 1
    /\ sleeps' = Append(sleeps, 15)
    /\ now' = now + 15
    /\ last_spin_id' = spin_id
    /\ pc' = "loop"
    /\ UNCHANGED <<config, startup, probes, locals, spins, fetches,
                   prev_spin_id, prev_calls, prev_branch, last_at_fetch,
                   miss_at_fetch, calls, crash, counts>>

\* A POST to Last.fm as run() sees it: the call is recorded, the clock
\* advances by the time the request took, and a response that is not ok
\* goes through handle_lastfm_http_error (lines 199-200, 237-238).  When the
\* function returns, run() prints its line for the status code; when the
\* handler raises, nothing is printed.
LastfmCall(kind, timestamp, resp, took, next_pc) ==
    /\ calls' = Append(calls,
          [kind |-> kind, id |-> spin_id, at |-> now,
           timestamp |-> timestamp, status |-> resp.status,
           printed |-> IF ~response_ok(resp)
                            /\ handle_lastfm_http_error_raises(resp)
                         THEN "nothing"
                         ELSE Printed(resp.status)])
    /\ now' = now + took
    /\ IF ~response_ok(resp) /\ handle_lastfm_http_error_raises(resp)
       THEN Raise("handle_lastfm_http_error")
       ELSE pc' = next_pc /\ UNCHANGED crash

\* lines 444-462 with update_np (lines 167-202).
UpdateNowPlaying ==
    /\ pc = "update_np"
    /\ \E resp \in LastfmResponses, took \in NetDelays :
        LastfmCall("np", 0, resp, took, "idle")
    /\ np_count' = [np_count EXCEPT ![spin_id] = @ + 1]
    /\ UNCHANGED <<config, startup, probes, miss_count, last_spin_id, locals,
                   spins, observed, sleeps, scrobble_count>>

\* lines 464-465: idle until the end of the song.
IdleUntilEnd ==
    /\ pc = "idle"
    /\ sleeps' = Append(sleeps, IdleSeconds(time_difference))
    /\ now' = now + IdleSeconds(time_difference)
    /\ pc' = "song_ended"
    /\ UNCHANGED <<config, startup, probes, miss_count, last_spin_id, locals,
                   spins, observed, calls, crash, counts>>

\* lines 468-487 with request_scrobble (lines 205-240).
RequestScrobble ==
    /\ pc = "song_ended"
    /\ LongEnough(spin_duration)
    /\ \E resp \in LastfmResponses, took \in NetDelays :
        LastfmCall("scrobble", ScrobbleTimestamp(current_spin), resp, took,
                   "delay")
    /\ scrobble_count' = [scrobble_count EXCEPT ![spin_id] = @ + 1]
    /\ UNCHANGED <<config, startup, probes, miss_count, last_spin_id, locals,
                   spins, observed, sleeps, np_count>>

\* lines 488-491: the song is too short to scrobble.
ScrobbleSkipped ==
    /\ pc = "song_ended"
    /\ ~LongEnough(spin_duration)
    /\ pc' = "delay"
    /\ UNCHANGED <<config, startup, probes, now, miss_count, last_spin_id,
                   locals, spins, observed, calls, sleeps, crash, counts>>

\* lines 493 and 516: the 5 s delay, then the loop bottom.
FinishSong ==
    /\ pc = "delay"
    /\ sleeps' = Append(sleeps, 5)
    /\ now' = now + 5
    /\ last_spin_id' = spin_id
    /\ pc' = "loop"
    /\ UNCHANGED <<config, startup, probes, miss_count, locals, spins,
                   observed, calls, crash, counts>>

\* signal_handler (lines 84-91): Ctrl+C ends the process with sys.exit(0).
Interrupt ==
    /\ pc \notin {"crashed", "exited"}
    /\ pc' = "exited"
    /\ UNCHANGED <<config, startup, probes, now, miss_count, last_spin_id,
                   locals, spins, observed, calls, sleeps, crash, counts>>

(* ----------------------------- entry point ---------------------------- *)

\* Truth value of a key in a Python condition: None and "" are false.
Truthy(v) == ~v.is_none /\ v.text # <<>>

\* str.lower() over ASCII code points.
lower(t) == [i \in 1..Len(t) |-> IF t[i] \in 65..90 THEN t[i] + 32 ELSE t[i]]

\* lines 534 and 564-566: all(char == "x" for char in string.lower()).
AllX(v) == \A i \in 1..Len(v.text) : lower(v.text)[i] = 120

\* The test of lines 532-537 with the example-value part left out.
KeysUnset_MissingOnly ==
    ~(Truthy(lastfm_api_key) /\ Truthy(lastfm_api_secret)
        /\ Truthy(spinitron_api_key))

\* lines 532-537: a key is not present or left as the example value.
KeysUnset ==
    \/ ~(Truthy(lastfm_api_key) /\ Truthy(lastfm_api_secret)
           /\ Truthy(spinitron_api_key))
    \/ \E v \in {lastfm_api_key, lastfm_api_secret, spinitron_api_key} :
        AllX(v)

\* lines 564-566: the session key is not present or left as the example
\* value.
SessionKeyUnset == ~Truthy(lastfm_session_key) \/ AllX(lastfm_session_key)

\* The process is started: the .env file, the flag and the marker files are
\* whatever the operator left.  Only setup mode looks at the marker files.
InitMain ==
    /\ Loaded
    /\ Unprobed
    /\ pc = "main"
    /\ lastfm_api_key \in KeyValues
    /\ lastfm_api_secret \in KeyValues
    /\ lastfm_session_key \in KeyValues
    /\ spinitron_api_key \in KeyValues
    /\ args_setup \in BOOLEAN
    /\ files \in (IF args_setup THEN SUBSET MarkerPaths ELSE {{}})
    /\ FirstStart

\* lines 532-542: the message is printed and the script ends.
MainKeysUnset ==
    /\ pc = "main"
    /\ KeysUnset
    /\ pc' = "exited"
    /\ UNCHANGED <<config, startup, probes, now, miss_count, last_spin_id,
                   locals, spins, observed, calls, sleeps, crash, counts>>

\* lines 544-547: setup mode, and no marker of an earlier setup.
MainSetup ==
    /\ pc = "main"
    /\ ~KeysUnset
    /\ args_setup
    /\ "/scrobbler/setup_done" \notin files
    /\ pc' = "setup"
    /\ UNCHANGED <<config, startup, probes, now, miss_count, last_spin_id,
                   locals, spins, observed, calls, sleeps, crash, counts>>

\* lines 554-560: "Setup was done previously. Aborting...".
MainSetupDone ==
    /\ pc = "main"
    /\ ~KeysUnset
    /\ args_setup
    /\ "/scrobbler/setup_done" \in files
    /\ pc' = "exited"
    /\ UNCHANGED <<config, startup, probes, now, miss_count, last_spin_id,
                   locals, spins, observed, calls, sleeps, crash, counts>>

\* lines 548-553 with setup (lines 270-304), get_token (lines 111-123) and
\* get_session_key (lines 126-149): the token response has no <token>
\* (AttributeError), the user does not answer 'y', Last.fm returns no
\* session key, or the key is stored and the marker written.  Every way out
\* ends the process.
Setup ==
    /\ pc = "setup"
    /\ \E outcome \in {"no_token", "not_confirmed", "no_session_key", "done"} :
        /\ setup_outcome' = outcome
        /\ IF outcome = "no_token"
           THEN Raise("get_token")
           ELSE pc' = "exited" /\ UNCHANGED crash
        /\ IF outcome = "done"
           THEN /\ files' = files \cup {"/env/setup_done"}
                /\ lastfm_session_key' = IssuedKey
           ELSE UNCHANGED <<files, lastfm_session_key>>
    /\ UNCHANGED <<config, probes, lastfm_api_key, lastfm_api_secret,
                   spinitron_api_key, args_setup, history, now, miss_count,
                   last_spin_id, locals, spins, observed, calls, sleeps,
                   counts>>

\* lines 562-571: polling mode without a session key.
MainSessionKeyUnset ==
    /\ pc = "main"
    /\ ~KeysUnset
    /\ ~args_setup
    /\ SessionKeyUnset
    /\ pc' = "exited"
    /\ UNCHANGED <<config, startup, probes, now, miss_count, last_spin_id,
                   locals, spins, observed, calls, sleeps, crash, counts>>

\* lines 572-573 and 332-333: run() is entered.
MainRun ==
    /\ pc = "main"
    /\ ~KeysUnset
    /\ ~args_setup
    /\ ~SessionKeyUnset
    /\ pc' = "loop"
    /\ miss_count' = 0
    /\ last_spin_id' = NoId
    /\ UNCHANGED <<config, startup, probes, now, locals, spins, observed, calls,
                   sleeps, crash, counts>>

Main ==
    \/ MainKeysUnset
    \/ MainSetup
    \/ MainSetupDone
    \/ Setup
    \/ MainSessionKeyUnset
    \/ MainRun

(* ------------------------- generate_signature ------------------------- *)

\* The values of a params dict: strings and integers (update_np passes the
\* duration as the integer Spinitron gave).
StrV(t) == [type |-> "str", text |-> t, n |-> 0]

IntV(n) == [type |-> "int", text |-> <<>>, n |-> n]

\* Keys "a", "b", "ab".
ParamKeys == {<<97>>, <<98>>, <<97, 98>>}

\* Values "1", "b", 1, 12.
ParamValues == {StrV(<<49>>), StrV(<<98>>), IntV(1), IntV(12)}

\* The most parameters of a dict.
MaxParams == 2

\* Every dict of 1..MaxParams parameters, as the pairs <<key, value>> in
\* the order they were inserted.
ParamMaps ==
    UNION {{p \in [1..n -> ParamKeys \X ParamValues] :
              \A i, j \in 1..n : i # j => p[i][1] # p[j][1]} :
           n \in 1..MaxParams}

\* The secrets generate_signature is tried with: "kx" and "1".
Secrets == {IssuedKey, String(<<49>>)}

\* The decimal digits of a natural number.
RECURSIVE Digits(_)
Digits(n) ==
    IF n < 10 THEN <<48 + n>> ELSE Digits(n \div 10) \o <<48 + (n % 10)>>

\* str(params[key]) (line 106).
str(v) == IF v.type = "int" THEN Digits(v.n) ELSE v.text

\* Python's order of strings: by code point, a proper prefix first.
StringLess(a, b) ==
    \/ Len(a) < Len(b) /\ \A j \in 1..Len(a) : a[j] = b[j]
    \/ \E i \in 1..Len(a) :
        /\ i <= Len(b)
        /\ a[i] < b[i]
        /\ \A j \in 1..(i - 1) : a[j] = b[j]

\* sorted(params) (line 105): the keys in ascending order.
RECURSIVE sorted(_)
sorted(keys) ==
    IF keys = {} THEN <<>>
    ELSE LET least == CHOOSE k \in keys :
                        \A o \in keys \ {k} : StringLess(k, o)
         IN  <<least>> \o sorted(keys \ {least})

\* The keys of a dict, as a set and in insertion order, and params[key].
KeySet(params) == {params[i][1] : i \in 1..Len(params)}

KeyList(params) == [i \in 1..Len(params) |-> params[i][1]]

ValueOf(params, key) ==
    params[CHOOSE i \in 1..Len(params) : params[i][1] = key][2]

\* lines 104-106: signature += key + str(params[key]), key after key.
RECURSIVE Concatenated(_, _)
Concatenated(params, keys) ==
    IF keys = <<>> THEN <<>>
    ELSE Head(keys) \o str(ValueOf(params, Head(keys)))
           \o Concatenated(params, Tail(keys))

\* hashlib.md5(...).hexdigest() (line 108), taken as injective: the digest
\* stands for the string it was made of.
md5_hexdigest(s) == [md5 |-> s]

\* generate_signature going through the dict in insertion order.
generate_signature_Unsorted(params) ==
    md5_hexdigest(Concatenated(params, KeyList(params))
                    \o lastfm_api_secret.text)

\* generate_signature (lines 94-108).
generate_signature(params) ==
    md5_hexdigest(Concatenated(params, sorted(KeySet(params)))
                    \o lastfm_api_secret.text)

\* The permutations of 1..n.
Permutations(n) ==
    {f \in [1..n -> 1..n] : \A i, j \in 1..n : i # j => f[i] # f[j]}

\* A dict and a secret to sign with.
InitSignature ==
    /\ Loaded
    /\ pc = "sign"
    /\ lastfm_api_key = IssuedKey
    /\ lastfm_api_secret \in Secrets
    /\ lastfm_session_key = IssuedKey
    /\ spinitron_api_key = IssuedKey
    /\ args_setup = FALSE
    /\ files = {}
    /\ FirstStart
    /\ sig_params \in ParamMaps
    /\ sig_other = <<>>
    /\ sig_a = NoSignature
    /\ sig_b = NoSignature
    /\ tested_hour = 0
    /\ in_schedule = FALSE

\* The dict is signed with what results from the change.
Signed(other, next_pc) ==
    /\ pc = "sign"
    /\ sig_other' = other
    /\ sig_a' = generate_signature(sig_params)
    /\ sig_b' = generate_signature(other)
    /\ pc' = next_pc
    /\ UNCHANGED <<config, startup, now, miss_count, last_spin_id, locals,
                   spins, observed, calls, sleeps, crash, counts, sig_params,
                   tested_hour, in_schedule>>

\* The same pairs inserted in another order (the same order included).
SignReordered ==
    \E f \in Permutations(Len(sig_params)) :
        Signed([i \in 1..Len(sig_params) |-> sig_params[f[i]]],
               "signed_reordered")

\* The value of one key replaced by another value.
SignChanged ==
    \E i \in 1..Len(sig_params) :
        \E v \in ParamValues \ {sig_params[i][2]} :
            Signed([sig_params EXCEPT ![i] = <<sig_params[i][1], v>>],
                   "signed_changed")

(* --------------------------- schedule test ---------------------------- *)

\* The hours of a day.
Hours == 0..(HoursPerDay - 1)

\* Any schedule.json: start_hour and end_hour are hours of the day.
InitWindow ==
    /\ start_hour \in Hours
    /\ end_hour \in Hours
    /\ now = 0
    /\ pc = "window"
    /\ miss_count = 0
    /\ last_spin_id = NoId
    /\ current_spin = NoCurrentSpin
    /\ playlist_response = NoResponse
    /\ current_playlist_category = "unset"
    /\ persona_response = NoResponse
    /\ current_datetime = now
    /\ time_difference = 0
    /\ spins = [i \in Ids |-> NoSpin]
    /\ fetches = 0
    /\ branch = "none"
    /\ calls = <<>>
    /\ sleeps = <<>>
    /\ crash = "none"
    /\ prev_spin_id = NoId
    /\ prev_calls = <<>>
    /\ prev_branch = "none"
    /\ last_at_fetch = NoId
    /\ miss_at_fetch = 0
    /\ np_count = [i \in Ids |-> 0]
    /\ scrobble_count = [i \in Ids |-> 0]
    /\ lastfm_api_key = IssuedKey
    /\ lastfm_api_secret = IssuedKey
    /\ lastfm_session_key = IssuedKey
    /\ spinitron_api_key = IssuedKey
    /\ args_setup = FALSE
    /\ files = {}
    /\ FirstStart
    /\ Unprobed

\* lines 392-398 (current_hour) and 409-415 (song_start_hour): the test is
\* put to an hour of the day.
TestHour ==
    /\ pc = "window"
    /\ \E h \in Hours :
        /\ tested_hour' = h
        /\ in_schedule' = InSchedule(start_hour, end_hour, h)
    /\ pc' = "window_tested"
    /\ UNCHANGED <<config, startup, now, miss_count, last_spin_id, locals,
                   spins, observed, calls, sleeps, crash, counts, sig_params,
                   sig_other, sig_a, sig_b>>

(* ------------------------------ restarts ------------------------------ *)

\* The most processes started one after the other.
MaxStarts == 3

\* The process has ended and the operator starts the script again, with or
\* without --setup.  /env/.env and the marker files are as the last process
\* left them; everything else starts afresh.
Restart ==
    /\ pc \in {"exited", "crashed"}
    /\ starts < MaxStarts
    /\ starts' = starts + 1
    /\ setup_done_before' = (setup_done_before \/ setup_outcome = "done")
    /\ setup_outcome' = "none"
    /\ args_setup' \in BOOLEAN
    /\ pc' = "main"
    /\ crash' = "none"
    /\ UNCHANGED <<config, probes, lastfm_api_key, lastfm_api_secret,
                   lastfm_session_key, spinitron_api_key, files, now,
                   miss_count, last_spin_id, locals, spins, observed, calls,
                   sleeps, counts>>

(* --------------------------- specifications --------------------------- *)

\* One iteration of the loop with a source whose spins never change.
Step ==
    \/ FetchSpin
    \/ FetchSpinMalformed
    \/ PlaylistRetry
    \/ PlaylistKeyError
    \/ PlaylistOk
    \/ PersonaRetry
    \/ PersonaOk
    \/ OutsideSchedule
    \/ SpinBeganOutside
    \/ NewSong
    \/ CategorySkip
    \/ Miss
    \/ UpdateNowPlaying
    \/ IdleUntilEnd
    \/ RequestScrobble
    \/ ScrobbleSkipped
    \/ FinishSong

Next == Step \/ FetchSpinEdited

\* run() against a source that may change the end of a spin between fetches.
Spec == Init /\ [][Next]_vars

\* run() against a source whose spins are immutable once logged.
SpecImmutable == Init /\ [][Step]_vars

\* run() with a user who may press Ctrl+C at any point.
SpecInterrupt == Init /\ [][Next \/ Interrupt]_vars

\* The script from its entry point: the checks of the keys, setup mode, and
\* run().
SpecMain == InitMain /\ [][Main \/ Next]_vars

\* The script started again and again: the entry point and setup mode, with
\* run() as the one step that enters it and Ctrl+C as the way out of it.
SpecRestart == InitMain /\ [][Main \/ Interrupt \/ Restart]_vars

\* generate_signature on its own, over every small dict.
SpecSignature == InitSignature /\ [][SignReordered \/ SignChanged]_vars

\* The schedule test on its own, over every schedule and every hour.
SpecWindow == InitWindow /\ [][TestHour]_vars

(* ------------------------------ claims -------------------------------- *)

\* The calls of one kind in a sequence of call records.
CallsOf(kind, cs) == {i \in 1..Len(cs) : cs[i].kind = kind}

\* The entries of one kind in a sequence of kinds.
KindsOf(kind, ks) == {i \in 1..Len(ks) : ks[i] = kind}

\* The window of the specification: [start, end), wrapping past midnight
\* when start > end, empty when start = end.
WindowRef(sh, eh, h) ==
    IF sh < eh THEN sh <= h /\ h < eh
    ELSE IF sh > eh THEN h >= sh \/ h < eh
    ELSE FALSE

\* Seconds from instant t to the next start_hour:00:00, today if it is
\* still ahead and tomorrow otherwise.
SecondsUntilNextStart(sh, t) ==
    IF desired_time(sh, t) >= t
    THEN desired_time(sh, t) - t
    ELSE desired_time(sh, t) + SecondsPerDay - t

\* This fetch returned the id the previous fetch returned.
SameIdAsPrevious ==
    /\ fetches >= 2
    /\ branch # "spin_fetch_failed"
    /\ current_spin.id = prev_spin_id

\* C1 as stated: of two consecutive fetch results with the same track id
\* only the first can trigger a now-playing/scrobble pair, never the second.
C1_OnlyFirstFetchEmits == SameIdAsPrevious => calls = <<>>

\* C1 as amended: two consecutive fetch results with the same track id lead
\* to at most one now-playing call and at most one scrobble call in total,
\* and when the first fetch triggered the pair the second triggers nothing.
C1_AtMostOnePairForSameId ==
    SameIdAsPrevious =>
        /\ Cardinality(KindsOf("np", prev_calls))
             + Cardinality(CallsOf("np", calls)) <= 1
        /\ Cardinality(KindsOf("scrobble", prev_calls))
             + Cardinality(CallsOf("scrobble", calls)) <= 1
        /\ (prev_calls # <<>> => calls = <<>>)

\* C1's case: the first fetch emitted the pair, the second fetch returns the
\* same id with time left again (its end was moved) and is suppressed.
C1_Witness ==
    /\ SameIdAsPrevious
    /\ prev_calls = <<"np", "scrobble">>
    /\ time_difference > 0
    /\ branch = "miss"

\* C2: with immutable spins, every spin id gets at most one now-playing call
\* and at most one scrobble call over the life of the loop.
C2_AtMostOncePerId ==
    \A id \in Ids : np_count[id] <= 1 /\ scrobble_count[id] <= 1

\* C2's case: an id that was emitted, then another id was fetched, then the
\* first id is fetched again and is not emitted a second time.
C2_Witness ==
    /\ fetches = 3
    /\ current_spin.id # prev_spin_id
    /\ prev_spin_id # NoId
    /\ np_count[current_spin.id] = 1
    /\ scrobble_count[current_spin.id] = 1
    /\ calls = <<>>
    /\ branch = "miss"

\* C3: a scrobble call is only ever made for a track longer than 30 s.
C3_NoScrobbleForShortTrack ==
    /\ CallsOf("scrobble", calls) # {} => spin_duration > 30
    /\ \A id \in Ids :
        scrobble_count[id] > 0 => spins[id].duration > 30

\* C3's case: a track of exactly 30 s got its now-playing call, the wait for
\* its end is over and no scrobble was sent.
C3_Witness ==
    /\ pc = "delay"
    /\ spin_duration = 30
    /\ time_difference > 0
    /\ Len(calls) = 1
    /\ calls[1].kind = "np"

\* C4: an iteration whose playlist category is "Automation", empty, or
\* missing from the playlist body makes no now-playing call and no scrobble
\* call.
C4_NoCallForAutomationOrNoCategory ==
    \/ current_playlist_category \in {"Automation", ""}
    \/ (playlist_response # NoResponse
          /\ "category" \notin playlist_response.keys)
    => /\ calls = <<>>
       /\ pc \notin {"update_np", "idle", "song_ended", "delay"}

\* C4's case: a new song, in the window and with time left, of an
\* automation playlist went through the loop.
C4_Witness ==
    /\ branch = "category_skip"
    /\ current_playlist_category = "Automation"
    /\ time_difference > 0
    /\ last_spin_id = spin_id
    /\ pc = "loop"

\* C5 as stated: no now-playing call and no scrobble call is made at an
\* instant whose hour is outside the window.
C5_NoCallOutsideWindow ==
    \A i \in 1..Len(calls) :
        WindowRef(start_hour, end_hour, Hour(calls[i].at))

\* C5 as amended: every now-playing and scrobble call is made in an
\* iteration whose reading of the current hour was inside the window; an
\* iteration that read an hour outside the window makes no call.
C5_CallsOnlyWhenHourReadInWindow ==
    /\ calls # <<>> => WindowRef(start_hour, end_hour, current_hour)
    /\ pc \in {"update_np", "idle", "song_ended", "delay"} =>
         WindowRef(start_hour, end_hour, current_hour)

\* C5's case: the hour read was inside the window, the track ended after
\* the window closed, and the scrobble went out at an hour outside it.
C5_Witness ==
    /\ WindowRef(start_hour, end_hour, current_hour)
    /\ \E i \in CallsOf("scrobble", calls) :
        ~WindowRef(start_hour, end_hour, Hour(calls[i].at))

\* C6: an iteration that finds the hour outside the window sleeps exactly
\* the seconds to the next start_hour:00:00 and goes on to the next
\* iteration.
C6_SleepsUntilNextStartHour ==
    branch = "out_of_window" =>
        /\ pc = "loop"
        /\ sleeps = <<SecondsUntilNextStart(start_hour, current_datetime)>>

C8_NoErrorEndsTheProcess == pc # "crashed"

\* A playlist or persona lookup of this iteration failed: a status other
\* than 200, or an expected key missing from the body.
LookupFailed ==
    \/ /\ playlist_response # NoResponse
       /\ \/ playlist_response.status # 200
          \/ ~({"title", "category", "persona_id"} \subseteq playlist_response.keys)
    \/ /\ persona_response # NoResponse
       /\ \/ persona_response.status # 200
          \/ "name" \notin persona_response.keys

\* C9: an iteration whose playlist or persona lookup failed makes no call,
\* leaves last_spin_id and miss_count as they were, sleeps exactly 10 s and
\* is back at the top of the loop.
C9_LookupFailureRetriesAfter10s ==
    LookupFailed =>
        /\ pc = "loop"
        /\ calls = <<>>
        /\ sleeps = <<10>>
        /\ last_spin_id = last_at_fetch
        /\ miss_count = miss_at_fetch

\* C10: after a now-playing or scrobble call that returned a non-2xx status,
\* with any body, the flow continues.
C10_FailedCallDoesNotStopTheFlow ==
    \A i \in 1..Len(calls) : calls[i].status >= 400 => pc # "crashed"

\* The seconds an iteration has slept so far.
RECURSIVE SumSeq(_)
SumSeq(s) == IF s = <<>> THEN 0 ELSE Head(s) + SumSeq(Tail(s))

\* C11: every iteration that is back at the top of the loop, whichever
\* branch it took, has blocked for at least 5 seconds since its fetch.
C11_EveryIterationBlocksFiveSeconds ==
    (pc = "loop" /\ branch # "none") => SumSeq(sleeps) >= 5

\* A key that is missing or a placeholder: not set, empty, or made of 'x'
\* characters only.
MissingOrPlaceholder(v) ==
    v.is_none \/ \A i \in 1..Len(v.text) : v.text[i] = 120

\* C12: when the API key, the API secret or the source API key is missing
\* or a placeholder, or in polling mode the session key is, the process
\* ends without entering run(): no fetch and no notification call is made.
C12_UnsetKeysNeverEnterRun ==
    \/ \E v \in {lastfm_api_key, lastfm_api_secret, spinitron_api_key} :
        MissingOrPlaceholder(v)
    \/ (~args_setup /\ MissingOrPlaceholder(lastfm_session_key))
    => /\ pc \in {"main", "exited"}
       /\ fetches = 0
       /\ calls = <<>>
       /\ \A id \in Ids : np_count[id] = 0 /\ scrobble_count[id] = 0

\* C12's case: polling mode with the three keys set and the session key left
\* as "xx"; the script has ended.
C12_Witness ==
    /\ pc = "exited"
    /\ ~args_setup
    /\ lastfm_api_key = IssuedKey
    /\ lastfm_api_secret = IssuedKey
    /\ spinitron_api_key = IssuedKey
    /\ lastfm_session_key = String(<<120, 120>>)
    /\ fetches = 0

\* The position at which two dicts of the same keys differ.
ChangedAt == CHOOSE i \in 1..Len(sig_params) : sig_params[i] # sig_other[i]

\* C13 as stated: the same pairs in any insertion order give the same
\* signature, and changing the value of one key always changes it.
C13_AnyValueChangeChangesSignature ==
    /\ pc = "signed_reordered" => sig_a = sig_b
    /\ pc = "signed_changed" => sig_a # sig_b

\* C13 as amended: the same pairs in any insertion order give the same
\* signature, and changing the value of one key changes the signature
\* exactly when the new value has another str() than the old one.
C13_ChangeOfStrChangesSignature ==
    /\ pc = "signed_reordered" => sig_a = sig_b
    /\ pc = "signed_changed" =>
         (sig_a # sig_b <=>
            str(sig_params[ChangedAt][2]) # str(sig_other[ChangedAt][2]))

\* C13's case: a dict of two keys inserted in descending key order, signed
\* against the same dict with "1" put in the place of "b" for one key.
C13_Witness ==
    /\ pc = "signed_changed"
    /\ Len(sig_params) = 2
    /\ StringLess(sig_params[2][1], sig_params[1][1])
    /\ sig_params[ChangedAt][2] = StrV(<<98>>)
    /\ sig_other[ChangedAt][2] = StrV(<<49>>)
    /\ sig_a # sig_b

\* The iteration has passed the schedule test and taken its branch.
Decided ==
    branch \in {"out_of_window", "began_outside", "new_song",
                "category_skip", "miss"}

\* C14: an iteration that reads a current hour inside the window for a
\* track whose start hour is outside it takes the branch of lines 416-421:
\* it makes no call, sleeps 15 s once, leaves last_spin_id and miss_count
\* as they were and is back at the top of the loop; no other iteration
\* takes that branch.
C14_TrackStartedOutsideWindow ==
    /\ (Decided /\ WindowRef(start_hour, end_hour, current_hour)
          /\ ~WindowRef(start_hour, end_hour, song_start_hour))
       => branch = "began_outside"
    /\ branch = "began_outside" =>
        /\ WindowRef(start_hour, end_hour, current_hour)
        /\ ~WindowRef(start_hour, end_hour, song_start_hour)
        /\ pc = "loop"
        /\ calls = <<>>
        /\ sleeps = <<15>>
        /\ last_spin_id = last_at_fetch
        /\ miss_count = miss_at_fetch

\* C14's case: the window has just opened, the fetched track started before
\* it opened and still has time left, and an earlier id is remembered.
C14_Witness ==
    /\ branch = "began_outside"
    /\ time_difference > 0
    /\ last_spin_id # NoId
    /\ last_spin_id # spin_id
    /\ pc = "loop"

\* C15: an iteration that ends with the current hour and the track's start
\* hour inside the window - the track was emitted, skipped for its
\* category, a repeat, or had ended - leaves last_spin_id equal to the
\* fetched id; so a track whose previous fetch took the repeat/ended branch
\* or the category skip is not emitted when the next fetch returns the same
\* id.
C15_LastIdIsTheFetchedId ==
    /\ (pc = "loop" /\ Decided
          /\ WindowRef(start_hour, end_hour, current_hour)
          /\ WindowRef(start_hour, end_hour, song_start_hour))
       => /\ branch \in {"new_song", "category_skip", "miss"}
          /\ last_spin_id = spin_id
    /\ (SameIdAsPrevious /\ prev_branch \in {"category_skip", "miss"})
       => /\ last_at_fetch = spin_id
          /\ calls = <<>>
          /\ pc \notin {"update_np", "idle", "song_ended", "delay"}

\* C15's case: a track first fetched under an automation playlist is
\* fetched again, now with time left and a playlist that is scrobbled, and
\* is treated as a repeat.
C15_Witness ==
    /\ SameIdAsPrevious
    /\ prev_branch = "category_skip"
    /\ CategoryScrobbled(current_playlist_category)
    /\ time_difference > 0
    /\ branch = "miss"
    /\ pc = "loop"

\* C16: miss_count is one more than at the fetch in an iteration that took
\* the repeat/ended branch, 0 in an iteration that took the new-song branch
\* (from before its now-playing call on), and what it was at the fetch in
\* every other iteration.
C16_MissCountPerBranch ==
    /\ branch = "miss" => miss_count = miss_at_fetch + 1
    /\ branch = "new_song" => miss_count = 0
    /\ branch \notin {"miss", "new_song"} => miss_count = miss_at_fetch
    /\ calls # <<>> => miss_count = 0

\* C16's case: after at least one repeat, a new song has had its
\* now-playing call and the counter is back at 0.
C16_Witness ==
    /\ branch = "new_song"
    /\ miss_at_fetch > 0
    /\ miss_count = 0
    /\ CallsOf("np", calls) # {}

\* C17: the only memory of line 424 is the id of the last iteration that
\* reached line 516.  A fetch of a track with time left, inside the window
\* (current hour and start hour), of a playlist whose category is neither
\* "Automation" nor empty, and whose id is not that id, gets its
\* now-playing call - and its scrobble when longer than 30 s - however
\* often the id was sent before.
C17_OnlyThePreviousIdSuppresses ==
    (Decided
       /\ WindowRef(start_hour, end_hour, current_hour)
       /\ WindowRef(start_hour, end_hour, song_start_hour)
       /\ time_difference > 0
       /\ current_playlist_category \notin {"Automation", ""}
       /\ spin_id # last_at_fetch)
    => /\ branch = "new_song"
       /\ pc # "update_np" => CallsOf("np", calls) = {1}
       /\ pc = "loop" =>
            (CallsOf("scrobble", calls) # {} <=> spin_duration > 30)

\* C17's case: fetches A, B, A; A got both calls at the first fetch, B went
\* through to line 516, and A - its end moved - has both calls again.
C17_Witness ==
    /\ fetches = 3
    /\ prev_spin_id # spin_id
    /\ last_at_fetch = prev_spin_id
    /\ branch = "new_song"
    /\ pc = "loop"
    /\ np_count[spin_id] = 2
    /\ scrobble_count[spin_id] = 2

\* A step taken while a track is being played through: it fetches nothing
\* and every call it leaves on record is for that track.
StepOfTheTrackPlaying ==
    pc \in {"idle", "song_ended", "delay"} =>
        /\ fetches' = fetches
        /\ current_spin' = current_spin
        /\ Len(calls') >= Len(calls)
        /\ \A i \in 1..Len(calls') : calls'[i].id = spin_id

\* C18: from the now-playing call for a track to the end of that track's
\* processing (the wait, the scrobble or its skipping, the 5 s delay) no
\* step fetches from the source API, and every call made is for that
\* track.
C18_OneTrackAtATime == [][StepOfTheTrackPlaying]_vars

\* C18's case: the second track fetched has had its now-playing call, the
\* wait for its end and its scrobble, with no fetch in between.
C18_Witness ==
    /\ pc = "delay"
    /\ fetches = 2
    /\ prev_spin_id \notin {NoId, spin_id}
    /\ Len(calls) = 2
    /\ calls[1].id = spin_id
    /\ calls[2].id = spin_id
    /\ calls[2].at > calls[1].at

\* C19: a now-playing call for a track longer than 30 s is followed by a
\* scrobble call for that track, whatever the now-playing response was.  A
\* process that has ended takes no further step, so it must have made the
\* scrobble by then.
C19_NowPlayingLeadsToScrobble ==
    (pc \in {"crashed", "exited"}
       /\ CallsOf("np", calls) # {}
       /\ spin_duration > 30)
    => \E i \in CallsOf("scrobble", calls) : calls[i].id = calls[1].id

\* C20: for every start_hour, end_hour and hour in 0..23 the schedule test
\* of lines 392-398 and 409-415 says "inside" exactly when the hour is in
\* [start, end) for start < end, in [start, 24) or [0, end) for
\* start > end, and never for start = end.
C20_ScheduleTestIsTheWindow ==
    pc = "window_tested" =>
        in_schedule = WindowRef(start_hour, end_hour, tested_hour)

\* C20's case: a window that wraps past midnight and an hour after
\* midnight that the test put inside it.
C20_Witness ==
    /\ pc = "window_tested"
    /\ start_hour > end_hour
    /\ tested_hour < end_hour
    /\ in_schedule

\* C21: run() prints the success line for a now-playing or scrobble call
\* only when the call returned a 2xx status; for a call that returned
\* another status and came back to run() it prints the error line.
C21_SuccessPrintedOnlyFor2xx ==
    \A i \in 1..Len(calls) :
        /\ calls[i].printed = "success" => calls[i].status \in 200..299
        /\ (calls[i].status \notin 200..299 /\ calls[i].printed # "nothing")
           => calls[i].printed = "error"

\* C22: a process started with --setup never enters run(); a process
\* started without it never calls setup() (no token, no session request);
\* and once setup() has completed in an earlier process, a process started
\* with --setup ends without calling setup() again.
C22_SetupIsSeparateAndOneShot ==
    /\ args_setup => pc \notin {"loop", "playlist", "persona", "schedule",
                                "update_np", "idle", "song_ended", "delay"}
    /\ ~args_setup => (pc # "setup" /\ setup_outcome = "none")
    /\ (setup_done_before /\ args_setup) =>
         (pc \in {"main", "exited"} /\ setup_outcome = "none")

====
